---- MODULE Spec2Model ----
(***************************************************************************)
(* Model of the PayPal webhook receiver of eventyay_paypal/views.py:       *)
(* check_webhook_signature, parse_webhook_event,                           *)
(* extract_order_and_payment and webhook with its three nested handlers.   *)
(* One internal payment P1 of one order, one provider order O1 with up to  *)
(* two captures, and the refunds the provider issues against it.           *)
(* Amounts are integers (the smallest currency unit).                      *)
(***************************************************************************)
EXTENDS Integers, Sequences, FiniteSets, TLC

\* ---------------------------------------------------------------- bounds
MaxRefunds == 2        \* refunds the provider issues
MaxRefundAmount == 2   \* largest amount of one refund
PaymentAmount == 3     \* payment.amount, the captured amount

\* timedelta(minutes=7) of check_webhook_signature
FreshnessMinutes == 7
FreshnessWindow == FreshnessMinutes * 60
\* ages (now - PAYPAL-TRANSMISSION-TIME) of a delivery, in seconds
Ages == {-60, 0, 360, 420, 421, 480}

NoValue == "none"      \* Python None / a missing key
OrderId == "O1"
\* an order of the same merchant account that belongs to no payment here
ForeignOrderId == "O2"
CaptureIds == <<"CAP1", "CAP2">>
RefundIds == <<"R1", "R2", "R3", "R4">>

\* OrderPayment.PAYMENT_STATE_*
PAYMENT_STATE_CREATED == "created"
PAYMENT_STATE_PENDING == "pending"
PAYMENT_STATE_CONFIRMED == "confirmed"
PAYMENT_STATE_CANCELED == "canceled"
PAYMENT_STATE_FAILED == "failed"
PAYMENT_STATE_REFUNDED == "refunded"
\* OrderRefund.REFUND_STATE_* / REFUND_SOURCE_EXTERNAL
REFUND_STATE_CREATED == "created"
REFUND_STATE_TRANSIT == "in_transit"
REFUND_STATE_DONE == "done"
REFUND_SOURCE_EXTERNAL == "external"

\* responses: HTTPStatus.OK, HTTPStatus.BAD_REQUEST, and the 500 Django
\* answers when an exception leaves the view
OK == 200
BAD_REQUEST == 400
SERVER_ERROR == 500

VARIABLES
    payState,      \* payment.state
    payInfo,       \* payment.info_data: the id and status of the order stored in it
    refunds,       \* payment.refunds.all(): sequence of [id, amount, state]
    rpos,          \* ReferencedPayPalObject rows, in pk order: [reference, payment]
    confirmCount,  \* number of payment.confirm() calls that succeeded
    orderStatus,   \* the provider's order status
    units,         \* the provider's purchase_units, each [payments |-> [captures |-> seq]]
    remoteRefunds, \* refunds issued at the provider: [id, amount, total, status]
    undelivered,   \* refund events the provider has sent and no delivery has acknowledged yet
    processed,     \* refund ids whose event handle_refund has applied
    last,          \* the delivery just handled and its outcome, Idle between deliveries
    sigIn,         \* the input of a check_webhook_signature call on its own
    sigOut,        \* and what the call returned
    proc           \* two deliveries handled at the same time: each one's position
                   \* in the handler and what it has read so far

vars == <<payState, payInfo, refunds, rpos, confirmCount, orderStatus, units,
          remoteRefunds, undelivered, processed, last, sigIn, sigOut, proc>>

\* ---------------------------------------------------------------- helpers
RECURSIVE SumAmounts(_)
SumAmounts(s) == IF s = <<>> THEN 0 ELSE Head(s).amount + SumAmounts(Tail(s))

Abs(x) == IF x < 0 THEN -x ELSE x

\* utils.safe_get for a two-key path: the default when a key is missing
safe_get2(data, k1, k2, default) ==
    IF k1 \in DOMAIN data
    THEN IF k2 \in DOMAIN data[k1] THEN data[k1][k2] ELSE default
    ELSE default

RECURSIVE Flatten(_)
Flatten(ss) == IF ss = <<>> THEN <<>> ELSE Head(ss) \o Flatten(Tail(ss))

\* every capture of the provider's order, over all purchase units
RemoteCaptures == Flatten([i \in 1..Len(units) |-> units[i].payments.captures])

\* the provider's total refunded amount
RemoteTotal == SumAmounts(remoteRefunds)

RemoteRefundIds == {remoteRefunds[i].id : i \in 1..Len(remoteRefunds)}

RemoteRefund(rid) ==
    remoteRefunds[CHOOSE i \in 1..Len(remoteRefunds) : remoteRefunds[i].id = rid]

\* the steps of one delivery, in the order the handler takes them
STEP_RESOLVE == "resolve"      \* parse_webhook_event, reads the reference table
STEP_VERIFY == "verify"        \* check_webhook_signature
STEP_FETCH == "fetch"          \* extract_order_and_payment, calls get_order
STEP_RECONCILE == "reconcile"  \* the dispatch to the nested handlers

Idle == [rtype |-> NoValue, id |-> NoValue, resp |-> 0, branch |-> NoValue,
         confirm |-> NoValue, fetchFailed |-> FALSE, reject |-> NoValue,
         untrusted |-> NoValue, redelivery |-> FALSE,
         up |-> NoValue, primary |-> NoValue, resolved |-> NoValue,
         trace |-> <<>>, lookup |-> NoValue, done |-> FALSE,
         applied |-> FALSE]

\* ---------------------------------------------------------------- inputs
\* a webhook event: resource_type, resource.id, the id the resource's "up"
\* link ends in (refunds), supplementary_data.related_ids.order_id
Event(rtype, id, up, related) ==
    [rtype |-> rtype, id |-> id, up |-> up, related |-> related]

\* what prov.paypal_request_handler.verify_webhook_signature answers:
\* an errors field or not, and response.verification_status
VerifyResponses ==
    [errors : BOOLEAN, status : {"SUCCESS", "FAILURE", "UNKNOWN", NoValue}]

\* ------------------------------------------------ check_webhook_signature
\* "true" / "false", or "raise" when the function raises instead of
\* returning; called: whether verify_webhook_signature was invoked
check_webhook_signature_NoFreshness(headers, age, vr) ==
    IF ~headers THEN [ret |-> "false", called |-> FALSE]
    ELSE IF vr.errors THEN [ret |-> "false", called |-> TRUE]
    ELSE IF vr.status = "FAILURE" THEN [ret |-> "raise", called |-> TRUE]
    ELSE [ret |-> "true", called |-> TRUE]

check_webhook_signature(headers, age, vr) ==
    IF ~headers THEN [ret |-> "false", called |-> FALSE]
    ELSE IF age > FreshnessWindow THEN [ret |-> "false", called |-> FALSE]
    ELSE IF vr.errors THEN [ret |-> "false", called |-> TRUE]
    \* errors is None here and errors["reason"] raises TypeError
    ELSE IF vr.status = "FAILURE" THEN [ret |-> "raise", called |-> TRUE]
    ELSE [ret |-> "true", called |-> TRUE]

\* ---------------------------------------------------- parse_webhook_event
\* index of the first ReferencedPayPalObject whose reference is one of refs,
\* 0 when there is none (QuerySet.first(), pk order)
FirstRpo(refs) ==
    LET hits == {i \in 1..Len(rpos) : rpos[i].reference \in refs}
    IN IF hits = {} THEN 0 ELSE CHOOSE i \in hits : \A j \in hits : i <= j

\* [event, payment_id, rpo, raised, primary]; primary: the first entry of
\* references, the id the lookup starts from
parse_webhook_event(e, hasRequestEvent) ==
    LET primary == IF e.rtype = "refund" THEN e.up ELSE e.id
        references == ({primary} \cup
                       (IF e.related # NoValue THEN {e.related} ELSE {}))
                      \ {NoValue}
        rpo == FirstRpo(references)
    IN IF rpo # 0
       THEN IF rpos[rpo].payment = NoValue
            \* rpo.payment is None: rpo.payment.info_data raises AttributeError
            THEN [event |-> "EV1", payment_id |-> primary, rpo |-> rpo,
                  raised |-> TRUE, primary |-> primary]
            ELSE [event |-> "EV1",
                  payment_id |-> IF payInfo.id # NoValue THEN payInfo.id
                                 ELSE primary,
                  rpo |-> rpo, raised |-> FALSE, primary |-> primary]
       ELSE [event |-> IF hasRequestEvent THEN "EV1" ELSE NoValue,
             payment_id |-> primary, rpo |-> 0, raised |-> FALSE,
             primary |-> primary]

\* ---------------------------------------------- remote state fetcher
\* paypal_request_handler.get_order: the order for its own id, an
\* errors answer for any other id or when the call fails
get_order(order_id, fetchOk) ==
    IF fetchOk /\ order_id = OrderId /\ orderStatus # NoValue
    THEN [errors |-> FALSE,
          response |-> [id |-> OrderId, status |-> orderStatus, units |-> units]]
    ELSE IF fetchOk /\ order_id = ForeignOrderId
    THEN [errors |-> FALSE,
          response |-> [id |-> ForeignOrderId, status |-> "COMPLETED",
                        units |-> <<>>]]
    ELSE [errors |-> TRUE,
          response |-> [id |-> NoValue, status |-> NoValue, units |-> <<>>]]

\* paypal_request_handler.get_refund_detail: id, amount.value, status and
\* seller_payable_breakdown.total_refunded_amount.value of the refund
get_refund_detail(refund_id, fetchOk) ==
    IF fetchOk /\ refund_id \in RemoteRefundIds
    THEN [errors |-> FALSE, response |-> RemoteRefund(refund_id)]
    ELSE [errors |-> TRUE,
          response |-> [id |-> NoValue, amount |-> 0, total |-> 0,
                        status |-> NoValue]]

\* ----------------------------------------------- extract_order_and_payment
\* info__icontains=order_detail.get("id") over the event's paypal payments
InfoContains(id) == payInfo.id = id

\* [order_detail, found, payment, raised]; found: order_detail is not None
extract_order_and_payment(payment_id, rpo, fetchOk) ==
    LET order_response == get_order(payment_id, fetchOk)
        order_detail == order_response.response
    IN IF order_response.errors
       THEN [order_detail |-> order_detail, found |-> FALSE,
             payment |-> NoValue, raised |-> FALSE]
       ELSE IF rpo # 0 /\ rpos[rpo].payment # NoValue
       THEN [order_detail |-> order_detail, found |-> TRUE,
             payment |-> rpos[rpo].payment, raised |-> FALSE]
       \* `"info_data" in p` on a model instance raises TypeError for the
       \* first payment the query returns
       ELSE IF InfoContains(order_detail.id)
       THEN [order_detail |-> order_detail, found |-> TRUE,
             payment |-> NoValue, raised |-> TRUE]
       ELSE [order_detail |-> order_detail, found |-> TRUE,
             payment |-> NoValue, raised |-> FALSE]

\* ------------------------------------------------------------ the ledger
\* payment.refunds.filter(state__in=(done, in_transit, created, external))
\*        .aggregate(Sum("amount")) or 0
NonFailedStates == {REFUND_STATE_DONE, REFUND_STATE_TRANSIT,
                    REFUND_STATE_CREATED, REFUND_SOURCE_EXTERNAL}

known_sum(rs) == SumAmounts(SelectSeq(rs, LAMBDA r : r.state \in NonFailedStates))

\* payment.create_external_refund(amount, info): a new OrderRefund in state
\* external whose info_data carries the id of info (no id without info)
create_external_refund(rs, amount, id) ==
    Append(rs, [id |-> id, amount |-> amount, state |-> REFUND_SOURCE_EXTERNAL])

\* {refund.info_data.get("id"): refund for refund in payment.refunds.all()}:
\* the record a key maps to is the last one carrying it
KnownIds(rs) == {rs[i].id : i \in 1..Len(rs)}
KnownIndex(rs, id) ==
    CHOOSE i \in 1..Len(rs) : rs[i].id = id /\ \A j \in 1..Len(rs) : rs[j].id = id => j <= i

\* ------------------------------------------------------------ handle_refund
\* fetch: "ok", "errors" (get_refund_detail answers errors) or "noid" (the
\* detail carries no id).  [refunds, failed, applied]
handle_refund_NoDedup(rs, refund_id_in_event, fetch) ==
    LET refund_response == get_refund_detail(refund_id_in_event, fetch # "errors")
        refund_detail == refund_response.response
        r1 == create_external_refund(rs, Abs(refund_detail.amount), refund_detail.id)
        ks == known_sum(r1)
    IN IF refund_response.errors
       THEN [refunds |-> rs, failed |-> TRUE, applied |-> FALSE, done |-> FALSE]
       ELSE IF fetch = "noid"
       THEN [refunds |-> rs, failed |-> FALSE, applied |-> FALSE, done |-> FALSE]
       ELSE [refunds |-> IF ks < refund_detail.total
                         THEN create_external_refund(r1, refund_detail.total - ks, NoValue)
                         ELSE r1,
             failed |-> FALSE, applied |-> TRUE, done |-> FALSE]

\* handle_refund without the test of the remote refund status: a known
\* record that is created or in transit is marked done on any refund event
handle_refund_NoStatusTest(rs, refund_id_in_event, fetch) ==
    LET refund_response == get_refund_detail(refund_id_in_event, fetch # "errors")
        refund_detail == refund_response.response
        refund_id == refund_detail.id
        toDone == /\ refund_id \in KnownIds(rs)
                  /\ rs[KnownIndex(rs, refund_id)].state
                        \in {REFUND_STATE_CREATED, REFUND_STATE_TRANSIT}
        r1 == IF refund_id \notin KnownIds(rs)
              THEN create_external_refund(rs, Abs(refund_detail.amount), refund_id)
              ELSE IF toDone
              THEN [rs EXCEPT ![KnownIndex(rs, refund_id)].state = REFUND_STATE_DONE]
              ELSE rs
        ks == known_sum(r1)
    IN IF refund_response.errors
       THEN [refunds |-> rs, failed |-> TRUE, applied |-> FALSE, done |-> FALSE]
       ELSE IF fetch = "noid"
       THEN [refunds |-> rs, failed |-> FALSE, applied |-> FALSE, done |-> FALSE]
       ELSE [refunds |-> IF ks < refund_detail.total
                         THEN create_external_refund(r1, refund_detail.total - ks, NoValue)
                         ELSE r1,
             failed |-> FALSE, applied |-> TRUE, done |-> toDone]

handle_refund(rs, refund_id_in_event, fetch) ==
    LET refund_response == get_refund_detail(refund_id_in_event, fetch # "errors")
        refund_detail == refund_response.response
        refund_id == refund_detail.id
        \* know_refund.done() is called
        toDone == /\ refund_id \in KnownIds(rs)
                  /\ rs[KnownIndex(rs, refund_id)].state
                        \in {REFUND_STATE_CREATED, REFUND_STATE_TRANSIT}
                  /\ refund_detail.status = "COMPLETED"
        r1 == IF refund_id \notin KnownIds(rs)
              THEN create_external_refund(rs, Abs(refund_detail.amount), refund_id)
              ELSE IF toDone
              THEN [rs EXCEPT ![KnownIndex(rs, refund_id)].state = REFUND_STATE_DONE]
              ELSE rs
        ks == known_sum(r1)
        total_refunded_amount == refund_detail.total
    IN IF refund_response.errors
       \* the HttpResponse(400) built here is returned to
       \* handle_payment_state_confirmed, which drops it
       THEN [refunds |-> rs, failed |-> TRUE, applied |-> FALSE, done |-> FALSE]
       ELSE IF fetch = "noid"
       THEN [refunds |-> rs, failed |-> FALSE, applied |-> FALSE, done |-> FALSE]
       ELSE [refunds |-> IF ks < total_refunded_amount
                         THEN create_external_refund(r1, total_refunded_amount - ks, NoValue)
                         ELSE r1,
             failed |-> FALSE, applied |-> TRUE, done |-> toDone]

\* ------------------------------------------- handle_payment_state_confirmed
handle_payment_state_confirmed(e, order_detail, fetch) ==
    IF e.rtype = "refund"
    THEN handle_refund(refunds, e.id, fetch)
    ELSE IF order_detail.status = "REFUNDED"
    THEN [refunds |-> IF known_sum(refunds) < PaymentAmount
                      THEN create_external_refund(
                               refunds, PaymentAmount - known_sum(refunds), NoValue)
                      ELSE refunds,
          failed |-> FALSE, applied |-> FALSE, done |-> FALSE]
    ELSE [refunds |-> refunds, failed |-> FALSE, applied |-> FALSE, done |-> FALSE]

\* ------------------------------------------------- the capture-progress path
CapturedStatuses == {"COMPLETED", "REFUNDED", "PARTIALLY_REFUNDED"}

\* ReferencedPayPalObject.objects.get_or_create(order, payment, reference):
\* the row when it exists, a new row otherwise; the unique constraint on
\* reference makes the insert raise IntegrityError when another payment's
\* (or no payment's) row holds the reference
get_or_create(rows, reference) ==
    IF \E i \in 1..Len(rows) : rows[i].reference = reference /\ rows[i].payment = "P1"
    THEN [rows |-> rows, raised |-> FALSE]
    ELSE IF \E i \in 1..Len(rows) : rows[i].reference = reference
    THEN [rows |-> rows, raised |-> TRUE]
    ELSE [rows |-> Append(rows, [reference |-> reference, payment |-> "P1"]),
          raised |-> FALSE]

\* the loop body of handle_payment_state_pending over a list of captures
RECURSIVE CaptureLoop(_, _)
CaptureLoop(caps, acc) ==
    IF caps = <<>> \/ acc.raised THEN acc
    ELSE LET capture == Head(caps)
             g == get_or_create(acc.rows, capture.id)
         IN CaptureLoop(Tail(caps),
              [rows |-> g.rows, raised |-> g.raised,
               captured |-> IF g.raised THEN acc.captured
                            ELSE acc.captured \/ capture.status \in CapturedStatuses,
               captures_completed |->
                   IF g.raised THEN acc.captures_completed
                   ELSE acc.captures_completed /\ capture.status \in CapturedStatuses])

\* the captures the handler iterates over:
\* safe_get(purchase_unit, ["payment", "captures"], []) of every purchase unit
HandlerCaptures(order_detail) ==
    Flatten([i \in 1..Len(order_detail.units) |->
                safe_get2(order_detail.units[i], "payment", "captures", <<>>)])

\* payment.payment_provider.execute_payment (payment.py): captures the
\* approved order at the provider and books the result.  outcome.kind is
\* "exception" (PaymentException) or "capture" with the purchase units the
\* provider answers: the payment is confirmed when every capture is
\* COMPLETED, left as it was when the quota is exceeded, pending otherwise.
\* Without an approved order it does nothing.
AllCompleted(us) ==
    LET caps == Flatten([i \in 1..Len(us) |-> us[i].payments.captures])
    IN caps # <<>> /\ \A i \in 1..Len(caps) : caps[i].status = "COMPLETED"

RECURSIVE LinkCaptures(_, _)
LinkCaptures(caps, rows) ==
    IF caps = <<>> THEN rows
    ELSE LinkCaptures(Tail(caps),
            IF \E i \in 1..Len(rows) : rows[i].reference = Head(caps).id
            THEN rows
            ELSE Append(rows, [reference |-> Head(caps).id, payment |-> "P1"]))

execute_payment(outcome, quotaOk) ==
    IF outcome.kind = "exception" \/ orderStatus # "APPROVED"
       \/ payState = PAYMENT_STATE_CONFIRMED
    THEN [payState |-> payState, payInfo |-> payInfo, rpos |-> rpos,
          confirm |-> NoValue, orderStatus |-> orderStatus, units |-> units,
          raised |-> FALSE]
    ELSE LET us == outcome.units
             done == AllCompleted(us) /\ quotaOk
         IN [payState |-> IF done THEN PAYMENT_STATE_CONFIRMED
                          ELSE IF AllCompleted(us) THEN payState
                          ELSE PAYMENT_STATE_PENDING,
             payInfo |-> [id |-> OrderId, status |-> "COMPLETED"],
             rpos |-> LinkCaptures(
                         Flatten([i \in 1..Len(us) |-> us[i].payments.captures]),
                         rpos),
             confirm |-> IF done THEN "ok"
                         ELSE IF AllCompleted(us) THEN "quota" ELSE NoValue,
             orderStatus |-> "COMPLETED", units |-> us, raised |-> FALSE]

\* handle_payment_state_pending with an upsert that also rewrites the row of
\* the order's own reference to this payment
handle_payment_state_pending_Relink(order_detail, quotaOk, outcome) ==
    IF order_detail.status = "APPROVED"
    THEN execute_payment(outcome, quotaOk)
    ELSE IF order_detail.status = "COMPLETED"
    THEN LET relinked == [i \in 1..Len(rpos) |->
                             IF rpos[i].reference = order_detail.id
                             THEN [rpos[i] EXCEPT !.payment = "P1"]
                             ELSE rpos[i]]
             loop == CaptureLoop(HandlerCaptures(order_detail),
                        [rows |-> relinked, raised |-> FALSE, captured |-> FALSE,
                         captures_completed |-> TRUE])
             go == ~loop.raised /\ loop.captured /\ loop.captures_completed
         IN [payState |-> IF go /\ quotaOk THEN PAYMENT_STATE_CONFIRMED ELSE payState,
             payInfo |-> IF go THEN [id |-> order_detail.id, status |-> order_detail.status]
                         ELSE payInfo,
             rpos |-> loop.rows,
             confirm |-> IF go THEN (IF quotaOk THEN "ok" ELSE "quota") ELSE NoValue,
             orderStatus |-> orderStatus, units |-> units,
             raised |-> loop.raised]
    ELSE [payState |-> payState, payInfo |-> payInfo, rpos |-> rpos,
          confirm |-> NoValue, orderStatus |-> orderStatus, units |-> units,
          raised |-> FALSE]

\* handle_payment_state_pending
handle_payment_state_pending(order_detail, quotaOk, outcome) ==
    IF order_detail.status = "APPROVED"
    THEN execute_payment(outcome, quotaOk)
    ELSE IF order_detail.status = "COMPLETED"
    THEN LET loop == CaptureLoop(HandlerCaptures(order_detail),
                        [rows |-> rpos, raised |-> FALSE, captured |-> FALSE,
                         captures_completed |-> TRUE])
             go == ~loop.raised /\ loop.captured /\ loop.captures_completed
         IN [payState |-> IF go /\ quotaOk THEN PAYMENT_STATE_CONFIRMED ELSE payState,
             \* payment.save(update_fields=["info"]) precedes payment.confirm()
             payInfo |-> IF go THEN [id |-> order_detail.id, status |-> order_detail.status]
                         ELSE payInfo,
             rpos |-> loop.rows,
             confirm |-> IF go THEN (IF quotaOk THEN "ok" ELSE "quota") ELSE NoValue,
             orderStatus |-> orderStatus, units |-> units,
             raised |-> loop.raised]
    ELSE [payState |-> payState, payInfo |-> payInfo, rpos |-> rpos,
          confirm |-> NoValue, orderStatus |-> orderStatus, units |-> units,
          raised |-> FALSE]

\* ------------------------------------------------------------------ webhook
SupportedTypes == {"checkout-order", "refund", "capture"}

\* the outcome of one delivery when nothing is written
NoWrite(resp, reject, verified) ==
    [resp |-> resp, reject |-> reject, verified |-> verified, branch |-> NoValue,
     confirm |-> NoValue, fetchFailed |-> FALSE, applied |-> FALSE,
     payState |-> payState, payInfo |-> payInfo, refunds |-> refunds,
     rpos |-> rpos, orderStatus |-> orderStatus, units |-> units,
     primary |-> NoValue, resolved |-> NoValue, trace |-> <<>>,
     lookup |-> NoValue, done |-> FALSE]

RefundStatuses == {"PARTIALLY_REFUNDED", "REFUNDED", "COMPLETED"}
UnconfirmedStates == {PAYMENT_STATE_PENDING, PAYMENT_STATE_CREATED,
                      PAYMENT_STATE_CANCELED, PAYMENT_STATE_FAILED}

\* the dispatch without the test of payment.state in its first branch
Dispatch_RefundAnyState(e, order_detail, verified, fetch, quotaOk, outcome) ==
    IF order_detail.status \in RefundStatuses
    THEN LET h == handle_payment_state_confirmed(e, order_detail, fetch)
         IN [NoWrite(OK, NoValue, verified) EXCEPT
                !.branch = IF e.rtype = "refund" THEN "refund" ELSE "confirmed",
                !.refunds = h.refunds,
                !.fetchFailed = h.failed, !.applied = h.applied, !.done = h.done]
    ELSE IF payState \in UnconfirmedStates
    THEN LET h == handle_payment_state_pending(order_detail, quotaOk, outcome)
         IN [NoWrite(IF h.raised THEN SERVER_ERROR ELSE OK, NoValue, verified) EXCEPT
                !.branch = IF order_detail.status = "APPROVED" THEN "approved"
                           ELSE IF order_detail.status = "COMPLETED" THEN "completed"
                           ELSE "pending",
                !.payState = h.payState,
                !.payInfo = h.payInfo, !.rpos = h.rpos, !.confirm = h.confirm,
                !.orderStatus = h.orderStatus, !.units = h.units]
    ELSE [NoWrite(OK, NoValue, verified) EXCEPT !.branch = "noop"]

\* the dispatch with a plain else for its second branch
Dispatch_PendingAnyState(e, order_detail, verified, fetch, quotaOk, outcome) ==
    IF /\ payState = PAYMENT_STATE_CONFIRMED
       /\ order_detail.status \in RefundStatuses
    THEN LET h == handle_payment_state_confirmed(e, order_detail, fetch)
         IN [NoWrite(OK, NoValue, verified) EXCEPT
                !.branch = IF e.rtype = "refund" THEN "refund" ELSE "confirmed",
                !.refunds = h.refunds,
                !.fetchFailed = h.failed, !.applied = h.applied, !.done = h.done]
    ELSE LET h == handle_payment_state_pending(order_detail, quotaOk, outcome)
         IN [NoWrite(IF h.raised THEN SERVER_ERROR ELSE OK, NoValue, verified) EXCEPT
                !.branch = IF order_detail.status = "APPROVED" THEN "approved"
                           ELSE IF order_detail.status = "COMPLETED" THEN "completed"
                           ELSE "pending",
                !.payState = h.payState,
                !.payInfo = h.payInfo, !.rpos = h.rpos, !.confirm = h.confirm,
                !.orderStatus = h.orderStatus, !.units = h.units]

\* the dispatch at the end of webhook, on (payment.state, order_detail.status)
Dispatch(e, order_detail, verified, fetch, quotaOk, outcome) ==
    IF /\ payState = PAYMENT_STATE_CONFIRMED
       /\ order_detail.status \in {"PARTIALLY_REFUNDED", "REFUNDED", "COMPLETED"}
    THEN LET h == handle_payment_state_confirmed(e, order_detail, fetch)
         IN [NoWrite(OK, NoValue, verified) EXCEPT
                !.branch = IF e.rtype = "refund" THEN "refund" ELSE "confirmed",
                !.refunds = h.refunds,
                !.fetchFailed = h.failed, !.applied = h.applied, !.done = h.done]
    ELSE IF payState \in {PAYMENT_STATE_PENDING, PAYMENT_STATE_CREATED,
                          PAYMENT_STATE_CANCELED, PAYMENT_STATE_FAILED}
    THEN LET h == handle_payment_state_pending(order_detail, quotaOk, outcome)
         IN [NoWrite(IF h.raised THEN SERVER_ERROR ELSE OK, NoValue, verified) EXCEPT
                !.branch = IF order_detail.status = "APPROVED" THEN "approved"
                           ELSE IF order_detail.status = "COMPLETED" THEN "completed"
                           ELSE "pending",
                !.payState = h.payState,
                !.payInfo = h.payInfo, !.rpos = h.rpos, !.confirm = h.confirm,
                !.orderStatus = h.orderStatus, !.units = h.units]
    ELSE [NoWrite(OK, NoValue, verified) EXCEPT !.branch = "noop"]

\* the whole request handler.  Besides the response and the writes the
\* outcome records the steps taken (trace), the first reference looked up
\* (primary), the payment of the ReferencedPayPalObject found (resolved,
\* "raise" when reading it raised) and why extract_order_and_payment found
\* nothing (lookup)
webhook(e, bodyOk, headers, age, vr, hasRequestEvent, orderOk, fetch, quotaOk, outcome) ==
    IF ~bodyOk
    \* json.loads raises on a body that is not JSON
    THEN NoWrite(SERVER_ERROR, NoValue, FALSE)
    ELSE IF e.rtype \notin SupportedTypes
    THEN NoWrite(BAD_REQUEST, "type", FALSE)
    ELSE LET pr == parse_webhook_event(e, hasRequestEvent)
             At(w, trace, lookup) ==
                 [w EXCEPT !.primary = pr.primary,
                           !.resolved = IF pr.raised THEN "raise"
                                        ELSE IF pr.rpo = 0 THEN NoValue
                                        ELSE rpos[pr.rpo].payment,
                           !.trace = trace, !.lookup = lookup]
         IN IF pr.raised
            THEN At(NoWrite(SERVER_ERROR, NoValue, FALSE), <<STEP_RESOLVE>>, NoValue)
            ELSE IF pr.event = NoValue
            THEN At(NoWrite(BAD_REQUEST, "event", FALSE), <<STEP_RESOLVE>>, NoValue)
            ELSE LET sig == check_webhook_signature(headers, age, vr)
                 IN IF sig.ret = "raise"
                    THEN At(NoWrite(SERVER_ERROR, NoValue, sig.called),
                            <<STEP_RESOLVE, STEP_VERIFY>>, NoValue)
                    ELSE IF sig.ret = "false"
                    THEN At(NoWrite(BAD_REQUEST, "signature", sig.called),
                            <<STEP_RESOLVE, STEP_VERIFY>>, NoValue)
                    ELSE LET ex == extract_order_and_payment(
                                       pr.payment_id, pr.rpo, orderOk)
                         IN IF ex.raised
                            THEN At(NoWrite(SERVER_ERROR, NoValue, sig.called),
                                    <<STEP_RESOLVE, STEP_VERIFY, STEP_FETCH>>,
                                    "nomatch")
                            ELSE IF ~ex.found \/ ex.payment = NoValue
                            THEN At(NoWrite(BAD_REQUEST, "notfound", sig.called),
                                    <<STEP_RESOLVE, STEP_VERIFY, STEP_FETCH>>,
                                    IF ex.found THEN "nomatch" ELSE "fetcherror")
                            ELSE At(Dispatch(e, ex.order_detail, sig.called,
                                             fetch, quotaOk, outcome),
                                    <<STEP_RESOLVE, STEP_VERIFY, STEP_FETCH,
                                      STEP_RECONCILE>>, NoValue)

\* ------------------------------------------------------------ state machine
Capture(id, status) == [id |-> id, status |-> status]
Unit(caps) == [payments |-> [captures |-> caps]]

\* the purchase units a capture call can answer: one capture, or two
\* purchase units with a capture each, COMPLETED or still PENDING
Layouts ==
    {<<Unit(<<Capture(CaptureIds[1], s1)>>)>> : s1 \in {"COMPLETED", "PENDING"}}
    \cup {<<Unit(<<Capture(CaptureIds[1], s[1])>>), Unit(<<Capture(CaptureIds[2], s[2])>>)>> :
             s \in {<<"COMPLETED", "COMPLETED">>, <<"COMPLETED", "PENDING">>,
                    <<"PENDING", "PENDING">>}}

ExecOutcomes ==
    {[kind |-> "exception", units |-> <<>>]}
    \cup {[kind |-> "capture", units |-> us] : us \in Layouts}

CaptureIdsOf(us) ==
    LET caps == Flatten([i \in 1..Len(us) |-> us[i].payments.captures])
    IN {caps[i].id : i \in 1..Len(caps)}

SigInputs == [headers : BOOLEAN, age : Ages, vr : VerifyResponses]
NoSigOut == [ret |-> NoValue, called |-> FALSE]

\* the signature inputs of a delivery: one for each way through
\* check_webhook_signature (SpecSig runs it on every input of SigInputs)
GoodSig ==
    [headers |-> TRUE, age |-> 360, vr |-> [errors |-> FALSE, status |-> "SUCCESS"]]

SigCases ==
    {[headers |-> FALSE, age |-> 0, vr |-> [errors |-> FALSE, status |-> "SUCCESS"]],
     [headers |-> TRUE, age |-> 480, vr |-> [errors |-> FALSE, status |-> "SUCCESS"]],
     [headers |-> TRUE, age |-> 360, vr |-> [errors |-> TRUE, status |-> NoValue]],
     [headers |-> TRUE, age |-> 360, vr |-> [errors |-> FALSE, status |-> "FAILURE"]],
     [headers |-> TRUE, age |-> 360, vr |-> [errors |-> FALSE, status |-> "UNKNOWN"]],
     [headers |-> TRUE, age |-> 360, vr |-> [errors |-> FALSE, status |-> "SUCCESS"]]}

\* the deliveries handled at the same time, and a delivery that has not
\* started: its event, its position, the refund detail it fetched, the
\* refund records it read (known), the sum it read (ks), the captures its
\* loop has still to visit (todo) with the loop's two flags, and its response
Deliveries == {1, 2}
NoDetail == [id |-> NoValue, amount |-> 0, total |-> 0, status |-> NoValue]
NotStarted ==
    [e |-> Event(NoValue, NoValue, NoValue, NoValue), pc |-> "idle",
     detail |-> NoDetail, known |-> <<>>, ks |-> 0, todo |-> <<>>,
     captured |-> FALSE, captures_completed |-> TRUE, resp |-> 0]
NoDeliveries == [d \in Deliveries |-> NotStarted]

\* the payment after checkout created the provider order: the order id is
\* in payment.info, and the order's ReferencedPayPalObject does not exist
\* yet or exists, with or without its nullable payment column set
InitLedger ==
    /\ payState \in {PAYMENT_STATE_CREATED, PAYMENT_STATE_PENDING,
                     PAYMENT_STATE_CANCELED, PAYMENT_STATE_FAILED}
    /\ payInfo = [id |-> OrderId, status |-> "CREATED"]
    /\ refunds = <<>>
    /\ rpos \in {<<>>,
                 <<[reference |-> OrderId, payment |-> "P1"]>>,
                 <<[reference |-> OrderId, payment |-> NoValue]>>}
    /\ confirmCount = 0
    /\ orderStatus = "CREATED"
    /\ units = <<>>
    /\ remoteRefunds = <<>>
    /\ undelivered = {}
    /\ processed = {}
    /\ last = Idle
    /\ proc = NoDeliveries

Init ==
    /\ InitLedger
    /\ sigIn = [headers |-> FALSE, age |-> 0, vr |-> [errors |-> FALSE, status |-> NoValue]]
    /\ sigOut = NoSigOut

\* the events the provider has sent so far, by resource id
Emitted ==
    (IF orderStatus # "CREATED" THEN {OrderId} ELSE {})
    \cup CaptureIdsOf(units) \cup RemoteRefundIds

\* the payloads a delivery can carry: a sent event in one of its shapes
\* (with or without the up link, with or without related_ids.order_id), an
\* event of a resource type the receiver does not support, or an event of
\* an order that belongs to no payment here
Payloads ==
    {Event("checkout-order", OrderId, NoValue, NoValue) : x \in {OrderId} \cap Emitted}
    \cup {Event("capture", c, NoValue, rel) :
             c \in CaptureIdsOf(units), rel \in {NoValue, OrderId}}
    \cup {Event("refund", r, up, rel) :
             r \in RemoteRefundIds, up \in {NoValue, CaptureIds[1]},
             rel \in {NoValue, OrderId}}
    \cup {Event("payment.capture.pending", CaptureIds[1], NoValue, NoValue)}
    \cup {Event("checkout-order", ForeignOrderId, NoValue, NoValue)}

\* the customer approves the order at the provider
Approve ==
    /\ last = Idle
    /\ orderStatus = "CREATED"
    /\ orderStatus' = "APPROVED"
    /\ UNCHANGED <<last, payState, payInfo, refunds, rpos, confirmCount, units,
                   remoteRefunds, undelivered, processed, sigIn, sigOut, proc>>

\* views.success: the return from the provider's checkout runs execute_payment
success ==
    /\ last = Idle
    /\ orderStatus = "APPROVED"
    /\ \E outcome \in ExecOutcomes, quotaOk \in BOOLEAN :
         LET x == execute_payment(outcome, quotaOk)
         IN /\ payState' = x.payState
            /\ payInfo' = x.payInfo
            /\ rpos' = x.rpos
            /\ confirmCount' = confirmCount + (IF x.confirm = "ok" THEN 1 ELSE 0)
            /\ orderStatus' = x.orderStatus
            /\ units' = x.units
    /\ UNCHANGED <<last, refunds, remoteRefunds, undelivered, processed, sigIn, sigOut, proc>>

SetCaptureStatus(us, cid, status) ==
    [i \in 1..Len(us) |->
        Unit([j \in 1..Len(us[i].payments.captures) |->
                 IF us[i].payments.captures[j].id = cid
                 THEN Capture(cid, status)
                 ELSE us[i].payments.captures[j]])]

\* a pending capture completes at the provider
CaptureSettle ==
    /\ last = Idle
    /\ \E i \in 1..Len(RemoteCaptures) :
         /\ RemoteCaptures[i].status = "PENDING"
         /\ units' = SetCaptureStatus(units, RemoteCaptures[i].id, "COMPLETED")
    /\ UNCHANGED <<last, payState, payInfo, refunds, rpos, confirmCount, orderStatus,
                   remoteRefunds, undelivered, processed, sigIn, sigOut, proc>>

\* the provider issues a refund against the first capture: started at the
\* provider (local = FALSE) or by the shop, which then holds its
\* OrderRefund already, done or waiting for the provider to complete it
RefundKinds ==
    {[local |-> FALSE, status |-> "COMPLETED", state |-> NoValue],
     [local |-> TRUE, status |-> "COMPLETED", state |-> REFUND_STATE_DONE],
     [local |-> TRUE, status |-> "PENDING", state |-> REFUND_STATE_CREATED],
     [local |-> TRUE, status |-> "PENDING", state |-> REFUND_STATE_TRANSIT]}

IssueRefund ==
    /\ last = Idle
    /\ Len(remoteRefunds) < MaxRefunds
    /\ RemoteCaptures # <<>>
    /\ \A i \in 1..Len(RemoteCaptures) : RemoteCaptures[i].status \in CapturedStatuses
    /\ \E amount \in 1..MaxRefundAmount, k \in RefundKinds :
         LET local == k.local
             status == k.status
             st == k.state
             rid == RefundIds[Len(remoteRefunds) + 1]
             total == RemoteTotal + amount
             derived == IF total = PaymentAmount THEN "REFUNDED"
                        ELSE "PARTIALLY_REFUNDED"
         IN /\ total <= PaymentAmount
            /\ local => payState = PAYMENT_STATE_CONFIRMED
            /\ remoteRefunds' = Append(remoteRefunds,
                   [id |-> rid, amount |-> amount, total |-> total, status |-> status])
            /\ units' = SetCaptureStatus(units, CaptureIds[1], derived)
            /\ orderStatus' = derived
            /\ refunds' = IF local
                          THEN Append(refunds,
                                 [id |-> rid, amount |-> amount,
                                  state |-> st])
                          ELSE refunds
            /\ undelivered' = undelivered \cup {rid}
    /\ UNCHANGED <<last, payState, payInfo, rpos, confirmCount, processed, sigIn, sigOut, proc>>

\* a pending refund completes at the provider
RefundSettle ==
    /\ last = Idle
    /\ \E i \in 1..Len(remoteRefunds) :
         /\ remoteRefunds[i].status = "PENDING"
         /\ remoteRefunds' = [remoteRefunds EXCEPT ![i].status = "COMPLETED"]
         /\ undelivered' = undelivered \cup {remoteRefunds[i].id}
    /\ UNCHANGED <<last, payState, payInfo, refunds, rpos, confirmCount, orderStatus,
                   units, processed, sigIn, sigOut, proc>>

\* the order management marks a confirmed payment refunded once its
\* refunds cover the whole amount
MarkRefunded ==
    /\ last = Idle
    /\ payState = PAYMENT_STATE_CONFIRMED
    /\ known_sum(refunds) >= PaymentAmount
    /\ payState' = PAYMENT_STATE_REFUNDED
    /\ UNCHANGED <<last, payInfo, refunds, rpos, confirmCount, orderStatus, units,
                   remoteRefunds, undelivered, processed, sigIn, sigOut, proc>>

\* the collaborators' answers to one delivery: everything succeeds, or
\* one of them fails; the endpoint is called with or without an event in
\* the request (hasRequestEvent)
NoCapture == [kind |-> "exception", units |-> <<>>]
AllGood ==
    [bodyOk |-> TRUE, sig |-> GoodSig, hasRequestEvent |-> TRUE, orderOk |-> TRUE,
     quotaOk |-> TRUE, fetch |-> "ok", outcome |-> NoCapture]

Cases(e) ==
    LET one == {AllGood, [AllGood EXCEPT !.bodyOk = FALSE],
                [AllGood EXCEPT !.orderOk = FALSE],
                [AllGood EXCEPT !.quotaOk = FALSE]}
               \cup {[AllGood EXCEPT !.sig = g] : g \in SigCases}
               \cup (IF e.rtype = "refund"
                     THEN {[AllGood EXCEPT !.fetch = f] : f \in {"errors", "noid"}}
                     ELSE {})
               \cup (IF orderStatus = "APPROVED"
                     THEN {[AllGood EXCEPT !.outcome = o, !.quotaOk = q] :
                              o \in ExecOutcomes, q \in BOOLEAN}
                     ELSE {})
    IN one \cup {[c EXCEPT !.hasRequestEvent = FALSE] : c \in one}

\* what makes a delivery malformed or untrusted, if anything: a body that is
\* not JSON, its resource type, a missing header, its age, or the provider's
\* verdict on its signature
Untrusted(e, bodyOk, sig) ==
    IF ~bodyOk THEN "body"
    ELSE IF e.rtype \notin SupportedTypes THEN "type"
    ELSE IF ~sig.headers THEN "headers"
    ELSE IF sig.age > FreshnessWindow THEN "stale"
    ELSE IF sig.vr.errors \/ sig.vr.status = "FAILURE" THEN "signature"
    ELSE "no"

\* one webhook delivery, from the request to the response; deliveries are
\* handled one after the other
Webhook ==
    /\ last = Idle
    /\ \E e \in Payloads :
      \E c \in Cases(e) :
        \E w \in {webhook(e, c.bodyOk, c.sig.headers, c.sig.age, c.sig.vr,
                          c.hasRequestEvent, c.orderOk, c.fetch, c.quotaOk,
                          c.outcome)} :
          /\ payState' = w.payState
          /\ payInfo' = w.payInfo
          /\ refunds' = w.refunds
          /\ rpos' = w.rpos
          /\ confirmCount' = confirmCount + (IF w.confirm = "ok" THEN 1 ELSE 0)
          /\ orderStatus' = w.orderStatus
          /\ units' = w.units
          /\ processed' = IF w.applied THEN processed \cup {e.id} ELSE processed
          /\ last' = [rtype |-> e.rtype, id |-> e.id, resp |-> w.resp,
                      branch |-> w.branch, confirm |-> w.confirm,
                      fetchFailed |-> w.fetchFailed, reject |-> w.reject,
                      untrusted |-> Untrusted(e, c.bodyOk, c.sig),
                      redelivery |-> e.id \in processed,
                      up |-> e.up, primary |-> w.primary,
                      resolved |-> w.resolved, trace |-> w.trace,
                      lookup |-> w.lookup, done |-> w.done,
                      applied |-> w.applied]
          /\ UNCHANGED <<remoteRefunds, undelivered, sigIn, sigOut, proc>>

\* the provider takes the response: a 200 acknowledges the event, anything
\* else leaves it to be sent again
ProviderAck ==
    /\ last # Idle
    /\ undelivered' = IF last.resp = OK /\ last.rtype = "refund"
                      THEN undelivered \ {last.id} ELSE undelivered
    /\ last' = Idle
    /\ UNCHANGED <<payState, payInfo, refunds, rpos, confirmCount, orderStatus,
                   units, remoteRefunds, processed, sigIn, sigOut, proc>>

Next ==
    \/ Approve \/ success \/ CaptureSettle \/ IssueRefund \/ RefundSettle
    \/ MarkRefunded \/ Webhook \/ ProviderAck

Spec == Init /\ [][Next]_vars

\* ---------------------------------------- the signature verifier on its own
InitSig ==
    /\ InitLedger
    /\ sigIn \in SigInputs
    /\ sigOut = NoSigOut

Verify ==
    /\ sigOut = NoSigOut
    /\ sigOut' = check_webhook_signature(sigIn.headers, sigIn.age, sigIn.vr)
    /\ UNCHANGED <<payState, payInfo, refunds, rpos, confirmCount, orderStatus,
                   units, remoteRefunds, undelivered, processed, last, sigIn, proc>>

NextRequest ==
    /\ sigOut # NoSigOut
    /\ sigIn' \in SigInputs
    /\ sigOut' = NoSigOut
    /\ UNCHANGED <<payState, payInfo, refunds, rpos, confirmCount, orderStatus,
                   units, remoteRefunds, undelivered, processed, last, proc>>

NextSig == Verify \/ NextRequest

SpecSig == InitSig /\ [][NextSig]_vars

\* ------------------------------------------ two deliveries at the same time
\* Two requests run webhook for the same event in separate processes: each
\* database query and each write is a step of its own, and steps of the two
\* requests interleave.  No transaction or lock spans the handler.
Started(e) == [NotStarted EXCEPT !.e = e, !.pc = "start"]

RaceRefundId == RefundIds[1]

\* a confirmed payment whose capture the provider has refunded once: the
\* refund was started at the provider or by the shop (RefundKinds), and a
\* pending one may have completed meanwhile
InitRefundRace ==
    /\ payState = PAYMENT_STATE_CONFIRMED
    /\ payInfo = [id |-> OrderId, status |-> "COMPLETED"]
    /\ rpos = <<[reference |-> OrderId, payment |-> "P1"],
                [reference |-> CaptureIds[1], payment |-> "P1"]>>
    /\ confirmCount = 1
    /\ \E amount \in 1..MaxRefundAmount, k \in RefundKinds, settled \in BOOLEAN :
         LET derived == IF amount = PaymentAmount THEN "REFUNDED"
                        ELSE "PARTIALLY_REFUNDED"
         IN /\ amount <= PaymentAmount
            /\ remoteRefunds =
                 <<[id |-> RaceRefundId, amount |-> amount, total |-> amount,
                    status |-> IF settled THEN "COMPLETED" ELSE k.status]>>
            /\ refunds = IF k.local
                         THEN <<[id |-> RaceRefundId, amount |-> amount,
                                 state |-> k.state]>>
                         ELSE <<>>
            /\ orderStatus = derived
            /\ units = <<Unit(<<Capture(CaptureIds[1], derived)>>)>>
    /\ undelivered = {RaceRefundId}
    /\ proc = [d \in Deliveries |->
                 Started(Event("refund", RaceRefundId, CaptureIds[1], NoValue))]

\* an unconfirmed payment whose order the provider reports COMPLETED; the
\* order's ReferencedPayPalObject exists, the capture's exists or not
InitCaptureRace ==
    /\ payState \in {PAYMENT_STATE_PENDING, PAYMENT_STATE_CREATED,
                     PAYMENT_STATE_CANCELED, PAYMENT_STATE_FAILED}
    /\ payInfo = [id |-> OrderId, status |-> "CREATED"]
    /\ rpos \in {<<[reference |-> OrderId, payment |-> "P1"]>>,
                 <<[reference |-> OrderId, payment |-> "P1"],
                   [reference |-> CaptureIds[1], payment |-> "P1"]>>}
    /\ confirmCount = 0
    /\ remoteRefunds = <<>>
    /\ refunds = <<>>
    /\ orderStatus = "COMPLETED"
    /\ units \in Layouts
    /\ undelivered = {}
    /\ proc = [d \in Deliveries |->
                 Started(Event("capture", CaptureIds[1], NoValue, OrderId))]

InitRace ==
    /\ InitRefundRace \/ InitCaptureRace
    /\ processed = {}
    /\ last = Idle
    /\ sigIn = [headers |-> FALSE, age |-> 0, vr |-> [errors |-> FALSE, status |-> NoValue]]
    /\ sigOut = NoSigOut

\* webhook up to its dispatch: the event is resolved, the signature holds,
\* the order detail is fetched and the payment found; payment.state is the
\* state read with the payment.  A non-refund event for a confirmed payment
\* is handled here in one step
Begin(d) ==
    /\ proc[d].pc = "start"
    /\ \E pr \in {parse_webhook_event(proc[d].e, TRUE)} :
       \E ex \in {extract_order_and_payment(pr.payment_id, pr.rpo, TRUE)} :
         /\ ~pr.raised /\ pr.event # NoValue
         /\ ~ex.raised /\ ex.found /\ ex.payment # NoValue
         /\ IF /\ payState = PAYMENT_STATE_CONFIRMED
               /\ ex.order_detail.status \in {"PARTIALLY_REFUNDED", "REFUNDED", "COMPLETED"}
            THEN IF proc[d].e.rtype = "refund"
                 THEN /\ proc' = [proc EXCEPT ![d].pc = "fetch_refund"]
                      /\ UNCHANGED refunds
                 ELSE /\ proc' = [proc EXCEPT ![d].pc = "respond"]
                      /\ refunds' = handle_payment_state_confirmed(
                                        proc[d].e, ex.order_detail, "ok").refunds
            ELSE IF /\ payState \in {PAYMENT_STATE_PENDING, PAYMENT_STATE_CREATED,
                                     PAYMENT_STATE_CANCELED, PAYMENT_STATE_FAILED}
                    /\ ex.order_detail.status = "COMPLETED"
            THEN /\ proc' = [proc EXCEPT ![d].pc = "loop",
                                         ![d].todo = HandlerCaptures(ex.order_detail)]
                 /\ UNCHANGED refunds
            ELSE /\ proc' = [proc EXCEPT ![d].pc = "respond"]
                 /\ UNCHANGED refunds
    /\ UNCHANGED <<payState, payInfo, rpos, confirmCount, orderStatus, units,
                   remoteRefunds, undelivered, processed, last, sigIn, sigOut>>

\* handle_refund: get_refund_detail
FetchRefundDetail(d) ==
    /\ proc[d].pc = "fetch_refund"
    /\ \E r \in {get_refund_detail(proc[d].e.id, TRUE)} :
         /\ ~r.errors
         /\ proc' = [proc EXCEPT ![d].detail = r.response, ![d].pc = "read_known"]
    /\ UNCHANGED <<payState, payInfo, refunds, rpos, confirmCount, orderStatus, units,
                   remoteRefunds, undelivered, processed, last, sigIn, sigOut>>

\* handle_refund: known_refunds, the query payment.refunds.all()
ReadKnownRefunds(d) ==
    /\ proc[d].pc = "read_known"
    /\ proc' = [proc EXCEPT ![d].known = refunds, ![d].pc = "apply"]
    /\ UNCHANGED <<payState, payInfo, refunds, rpos, confirmCount, orderStatus, units,
                   remoteRefunds, undelivered, processed, last, sigIn, sigOut>>

\* handle_refund: create_external_refund for an id the query did not
\* return, or done() on the record it returned
ApplyRefund(d) ==
    /\ proc[d].pc = "apply"
    /\ LET refund_detail == proc[d].detail
           known == proc[d].known
       IN refunds' =
            IF refund_detail.id \notin KnownIds(known)
            THEN create_external_refund(refunds, Abs(refund_detail.amount),
                                        refund_detail.id)
            ELSE IF /\ known[KnownIndex(known, refund_detail.id)].state
                          \in {REFUND_STATE_CREATED, REFUND_STATE_TRANSIT}
                    /\ refund_detail.status = "COMPLETED"
            THEN [refunds EXCEPT
                     ![KnownIndex(known, refund_detail.id)].state = REFUND_STATE_DONE]
            ELSE refunds
    /\ proc' = [proc EXCEPT ![d].pc = "read_sum"]
    /\ UNCHANGED <<payState, payInfo, rpos, confirmCount, orderStatus, units,
                   remoteRefunds, undelivered, processed, last, sigIn, sigOut>>

\* handle_refund: known_sum, the aggregate query over the non-failed refunds
ReadKnownSum(d) ==
    /\ proc[d].pc = "read_sum"
    /\ proc' = [proc EXCEPT ![d].ks = known_sum(refunds), ![d].pc = "shortfall"]
    /\ UNCHANGED <<payState, payInfo, refunds, rpos, confirmCount, orderStatus, units,
                   remoteRefunds, undelivered, processed, last, sigIn, sigOut>>

\* handle_refund: the shortfall record when the sum read is below the total
CreateShortfall(d) ==
    /\ proc[d].pc = "shortfall"
    /\ refunds' = IF proc[d].ks < proc[d].detail.total
                  THEN create_external_refund(
                           refunds, proc[d].detail.total - proc[d].ks, NoValue)
                  ELSE refunds
    /\ proc' = [proc EXCEPT ![d].pc = "respond"]
    /\ UNCHANGED <<payState, payInfo, rpos, confirmCount, orderStatus, units,
                   remoteRefunds, undelivered, processed, last, sigIn, sigOut>>

\* the loop flags after the capture at the head of todo
Visited(p) ==
    [p EXCEPT !.todo = Tail(p.todo), !.pc = "loop",
              !.captured = p.captured \/ Head(p.todo).status \in CapturedStatuses,
              !.captures_completed =
                  p.captures_completed /\ Head(p.todo).status \in CapturedStatuses]

\* handle_payment_state_pending with status COMPLETED, a step at a time:
\* the get of get_or_create, its create (which returns the row another
\* request has inserted meanwhile), and after the loop the save and
\* payment.confirm(), which does nothing for a payment already confirmed
ReconcilePending(d) ==
    /\ proc[d].pc \in {"loop", "create", "confirm"}
    /\ IF proc[d].pc = "loop" /\ proc[d].todo = <<>>
       THEN /\ proc' = [proc EXCEPT ![d].pc =
                           IF proc[d].captured /\ proc[d].captures_completed
                           THEN "confirm" ELSE "respond"]
            /\ UNCHANGED <<payState, payInfo, rpos, confirmCount>>
       ELSE IF proc[d].pc = "loop"
       THEN /\ proc' = [proc EXCEPT ![d] =
                           IF \E i \in 1..Len(rpos) :
                                 /\ rpos[i].reference = Head(proc[d].todo).id
                                 /\ rpos[i].payment = "P1"
                           THEN Visited(proc[d])
                           ELSE [proc[d] EXCEPT !.pc = "create"]]
            /\ UNCHANGED <<payState, payInfo, rpos, confirmCount>>
       ELSE IF proc[d].pc = "create"
       THEN /\ \E g \in {get_or_create(rpos, Head(proc[d].todo).id)} :
                 /\ rpos' = g.rows
                 /\ proc' = [proc EXCEPT ![d] =
                               IF g.raised
                               THEN [proc[d] EXCEPT !.pc = "done",
                                                    !.resp = SERVER_ERROR]
                               ELSE Visited(proc[d])]
            /\ UNCHANGED <<payState, payInfo, confirmCount>>
       ELSE /\ payInfo' = [id |-> OrderId, status |-> orderStatus]
            /\ payState' = PAYMENT_STATE_CONFIRMED
            /\ confirmCount' = confirmCount
                                 + (IF payState = PAYMENT_STATE_CONFIRMED THEN 0 ELSE 1)
            /\ proc' = [proc EXCEPT ![d].pc = "respond"]
            /\ UNCHANGED rpos
    /\ UNCHANGED <<refunds, orderStatus, units, remoteRefunds, undelivered,
                   processed, last, sigIn, sigOut>>

\* return HttpResponse(status=HTTPStatus.OK)
Respond(d) ==
    /\ proc[d].pc = "respond"
    /\ proc' = [proc EXCEPT ![d].pc = "done", ![d].resp = OK]
    /\ UNCHANGED <<payState, payInfo, refunds, rpos, confirmCount, orderStatus, units,
                   remoteRefunds, undelivered, processed, last, sigIn, sigOut>>

NextRace ==
    \E d \in Deliveries :
        \/ Begin(d) \/ FetchRefundDetail(d) \/ ReadKnownRefunds(d)
        \/ ApplyRefund(d) \/ ReadKnownSum(d) \/ CreateShortfall(d)
        \/ ReconcilePending(d) \/ Respond(d)

SpecRace == InitRace /\ [][NextRace]_vars

\* ===================================================================== claims

\* C1: in every reachable state the sum of the payment's non-failed refund
\* records is at most the provider's total refunded amount.
C1_SumWithinRemoteTotal == known_sum(refunds) <= RemoteTotal

\* C2: once every refund event has been delivered and acknowledged, the sum
\* of the payment's non-failed refund records equals the provider's total
\* refunded amount.
C2_SumConverges ==
    (last = Idle /\ undelivered = {}) => known_sum(refunds) = RemoteTotal

\* the refund records and their amounts, without their states
RefundView == [i \in 1..Len(refunds) |-> [id |-> refunds[i].id, amount |-> refunds[i].amount]]

NoDuplicateExternalIds ==
    \A i, j \in 1..Len(refunds) :
        (i # j /\ refunds[i].id = refunds[j].id) => refunds[i].id = NoValue

\* C3: no two refund records of the payment carry the same external refund
\* id, and a delivery of a refund event that an earlier delivery has already
\* applied leaves the refund records and their amounts as they were.
C3_RedeliveryCreatesNothing ==
    /\ []NoDuplicateExternalIds
    /\ [][(last'.rtype = "refund" /\ last'.redelivery) => RefundView' = RefundView]_vars

\* a refund event applied a second time, through handle_refund
C3_Witness ==
    /\ last.rtype = "refund" /\ last.redelivery
    /\ last.branch = "refund" /\ ~last.fetchFailed /\ last.resp = OK
    /\ \E i \in 1..Len(refunds) :
          refunds[i].id = last.id /\ refunds[i].state = REFUND_SOURCE_EXTERNAL

RpoCount(reference) ==
    Cardinality({i \in 1..Len(rpos) : rpos[i].reference = reference})

\* C4: after a delivery, the first or a repeated one, of a capture event for
\* an order the provider reports COMPLETED with all captures COMPLETED, the
\* payment (pending before the first delivery) has been confirmed exactly
\* once and every capture id has exactly one ReferencedPayPalObject.
C4_ConfirmedExactlyOnce ==
    (/\ last.rtype = "capture" /\ last.resp = OK
     /\ last.branch \in {"completed", "confirmed"}
     /\ orderStatus = "COMPLETED" /\ AllCompleted(units)
     /\ last.confirm # "quota"
     /\ payState \in {PAYMENT_STATE_PENDING, PAYMENT_STATE_CONFIRMED})
    => (/\ payState = PAYMENT_STATE_CONFIRMED
        /\ confirmCount = 1
        /\ \A c \in CaptureIdsOf(units) : RpoCount(c) = 1)

\* C5: in the capture-progress path with remote status COMPLETED the payment
\* is confirmed exactly when the order has a capture and every capture of
\* every purchase unit is COMPLETED, REFUNDED or PARTIALLY_REFUNDED.
C5_CaptureGating ==
    (last.branch = "completed" /\ last.resp = OK /\ last.confirm # "quota")
    => ((last.confirm = "ok")
        <=> (/\ RemoteCaptures # <<>>
             /\ \A i \in 1..Len(RemoteCaptures) :
                   RemoteCaptures[i].status \in CapturedStatuses))

\* C6: a delivery whose refund-detail fetch fails is answered with 400 and
\* creates or transitions no refund record.
C6_FetchFailureRejected ==
    [][last'.fetchFailed => (last'.resp = BAD_REQUEST /\ refunds' = refunds)]_vars

\* C7: every delivery is answered with 200 or 400.
C7_Only200Or400 == last # Idle => last.resp \in {OK, BAD_REQUEST}

\* C8: a delivery that is malformed or untrusted (unsupported resource type,
\* missing signature header, stale timestamp, failed signature) is answered
\* with 400 and changes neither the ReferencedPayPalObject table nor the
\* payment's state, info or refund records.
C8_UntrustedRejectedUnchanged ==
    [][last'.untrusted \in {"type", "headers", "stale", "signature"}
       => (last'.resp = BAD_REQUEST /\ UNCHANGED <<rpos, payState, payInfo, refunds>>)]_vars

\* the window and the two ages the freshness claim names, in seconds
ClaimedWindow == 7 * 60
EightMinutes == 8 * 60
SixMinutes == 6 * 60
ValidSignature == [errors |-> FALSE, status |-> "SUCCESS"]

\* C9: with the five headers present the verifier returns false, without
\* asking the provider, whenever the event is older than 7 minutes; an
\* event aged 8 minutes is rejected whatever the provider would answer, and
\* an event aged 6 minutes with a valid signature is accepted.
C9_FreshnessBeforeSignature ==
    (sigOut # NoSigOut /\ sigIn.headers)
    => (/\ sigIn.age > ClaimedWindow => (sigOut.ret = "false" /\ ~sigOut.called)
        /\ sigIn.age = EightMinutes => sigOut.ret = "false"
        /\ (sigIn.age = SixMinutes /\ sigIn.vr = ValidSignature)
              => sigOut.ret = "true")

\* an event aged 8 minutes whose signature the provider would accept
C9_Witness ==
    /\ sigOut # NoSigOut /\ sigIn.headers
    /\ sigIn.age = EightMinutes /\ sigIn.vr = ValidSignature
    /\ sigOut.ret = "false"

\* C10: the verifier returns true for an error-free response with status
\* SUCCESS and false for every other response of the provider.
C10_OnlySuccessAccepted ==
    (sigOut # NoSigOut /\ sigOut.called)
    => sigOut.ret = (IF ~sigIn.vr.errors /\ sigIn.vr.status = "SUCCESS"
                     THEN "true" ELSE "false")

\* a delivery has just been handled
Delivered == last = Idle /\ last' # Idle

\* C11: a delivery whose order-detail fetch answers a provider error, or
\* whose fetched order no internal payment matches, is answered with 400
\* and changes neither the payment's state, info or refund records nor the
\* ReferencedPayPalObject table.
C11_LookupFailureRejected ==
    [][last'.lookup \in {"fetcherror", "nomatch"}
       => (last'.resp = BAD_REQUEST /\ UNCHANGED <<payState, payInfo, refunds, rpos>>)]_vars

HasRpo(reference) == \E i \in 1..Len(rpos) : rpos[i].reference = reference
RpoPayment(reference) ==
    rpos[CHOOSE i \in 1..Len(rpos) : rpos[i].reference = reference].payment

\* C12: the primary reference of a delivery is the id of the up link for a
\* refund event and the resource's own id otherwise, and a refund event
\* whose up link names a capture id with a ReferencedPayPalObject, its own
\* id having none, resolves to the payment of that object.
C12_RefundResolvesThroughUpLink ==
    [][(Delivered /\ last'.trace # <<>>)
       => (/\ last'.primary = (IF last'.rtype = "refund" THEN last'.up ELSE last'.id)
           /\ (/\ last'.rtype = "refund"
               /\ last'.up # NoValue /\ HasRpo(last'.up) /\ ~HasRpo(last'.id))
              => last'.resolved = RpoPayment(last'.up))]_vars

ClaimedStepOrder == <<STEP_VERIFY, STEP_RESOLVE, STEP_FETCH, STEP_RECONCILE>>

\* C13: the steps of a delivery are taken in the order signature
\* verification, event resolution, order-detail fetch, reconciliation: the
\* steps a delivery took are the first steps of that order.
C13_StepsInOrder ==
    \A i \in 1..Len(last.trace) : last.trace[i] = ClaimedStepOrder[i]

ClaimedRefundStatuses == {"PARTIALLY_REFUNDED", "REFUNDED", "COMPLETED"}
ClaimedUnconfirmed == {"pending", "created", "canceled", "failed"}

C15_TransitionsGuarded ==
    [][Delivered
       => (/\ (payState' = "confirmed" /\ payState # "confirmed")
                 => payState \in ClaimedUnconfirmed
           /\ refunds' # refunds
                 => (payState = "confirmed" /\ payState' = "confirmed"))]_vars

\* a refund event has created its record for the confirmed payment
C15_Witness ==
    /\ last.branch = "refund" /\ last.applied /\ ~last.redelivery
    /\ payState = PAYMENT_STATE_CONFIRMED
    /\ \E i \in 1..Len(refunds) :
          refunds[i].id = last.id /\ refunds[i].state = REFUND_SOURCE_EXTERNAL

\* C16: in every reachable state the sum of the payment's non-failed refund
\* records is at most the payment's captured amount.
C16_SumWithinPaymentAmount == known_sum(refunds) <= PaymentAmount

\* C17: a non-refund event for a confirmed payment whose order is REFUNDED
\* creates one refund record of the payment amount minus the known sum when
\* that is positive and none otherwise, and the known sum equals the
\* payment amount afterwards.
C17_OrderLevelShortfall ==
    [][(Delivered /\ last'.branch = "confirmed" /\ orderStatus = "REFUNDED")
       => (/\ refunds' =
                 (IF PaymentAmount - known_sum(refunds) > 0
                  THEN Append(refunds,
                         [id |-> NoValue,
                          amount |-> PaymentAmount - known_sum(refunds),
                          state |-> REFUND_SOURCE_EXTERNAL])
                  ELSE refunds)
           /\ known_sum(refunds') = PaymentAmount)]_vars

\* C18: a delivery whose confirmation fails on the quota is answered 200
\* and leaves the payment in its unconfirmed state, and a delivery of the
\* COMPLETED event for an order whose captures are all captured confirms
\* the payment unless the quota fails.
C18_QuotaFailureRetryable ==
    [][Delivered
       => (/\ last'.confirm = "quota"
                 => (/\ last'.resp = OK /\ payState' = payState
                     /\ payState \in ClaimedUnconfirmed)
           /\ (/\ last'.branch = "completed" /\ last'.resp = OK
               /\ last'.confirm # "quota"
               /\ RemoteCaptures # <<>>
               /\ \A i \in 1..Len(RemoteCaptures) :
                     RemoteCaptures[i].status \in CapturedStatuses)
                 => payState' = "confirmed")]_vars

\* C19: a delivery leaves the state of every existing refund record as it
\* was, except that a refund event moves the record carrying its refund id
\* to done exactly when the record is created or in transit and the remote
\* refund is COMPLETED; a record that is done stays done.
C19_KnownRefundTransition ==
    [][Delivered
       => \A i \in 1..Len(refunds) :
            /\ Len(refunds') >= i
            /\ refunds'[i].id = refunds[i].id
            /\ refunds'[i].state =
                 (IF /\ last'.branch = "refund" /\ last'.applied
                     /\ refunds[i].id = last'.id
                     /\ refunds[i].state \in {"created", "in_transit"}
                     /\ RemoteRefund(last'.id).status = "COMPLETED"
                  THEN "done" ELSE refunds[i].state)]_vars

\* a refund event has moved its known record to done
C19_Witness ==
    /\ last.branch = "refund" /\ last.done
    /\ \E i \in 1..Len(refunds) :
          refunds[i].id = last.id /\ refunds[i].state = REFUND_STATE_DONE

\* C20: every ReferencedPayPalObject keeps its reference and its payment in
\* every later state.
C20_ReferencesImmutable ==
    [][\A i \in 1..Len(rpos) : Len(rpos') >= i /\ rpos'[i] = rpos[i]]_vars

\* a delivery in the capture-progress path for an order whose capture and
\* whose own id have their ReferencedPayPalObject
C20_Witness ==
    /\ last.branch \in {"approved", "completed"} /\ last.resp = OK
    /\ HasRpo(OrderId) /\ HasRpo(CaptureIds[1])

\* both deliveries have been answered
BothAnswered == \A d \in Deliveries : proc[d].pc = "done"

\* C21: after two deliveries of the same refund event for a confirmed
\* payment, handled at the same time, at most one refund record carries
\* that refund id and the sum of the non-failed refund records is at most
\* the provider's total refunded amount.
C21_ConcurrentRefundOnce ==
    (BothAnswered /\ \A d \in Deliveries : proc[d].e.rtype = "refund")
    => (/\ Cardinality({i \in 1..Len(refunds) : refunds[i].id = RaceRefundId}) <= 1
        /\ known_sum(refunds) <= RemoteTotal)

\* C22: after two deliveries reporting the same capture id, handled at the
\* same time in the capture-progress path for a COMPLETED order, exactly
\* one ReferencedPayPalObject carries that capture id and both deliveries
\* were answered 200.
C22_ConcurrentCaptureOnce ==
    (BothAnswered /\ \A d \in Deliveries : proc[d].e.rtype = "capture")
    => (/\ RpoCount(CaptureIds[1]) = 1
        /\ \A d \in Deliveries : proc[d].resp = OK)
====
